---- MODULE Spec2Model ----
(***************************************************************************)
(* Model of the push_files tool of github-mcp-server-sse:                  *)
(*   handlePushFiles (main package) -> operations.PushFiles -> five calls  *)
(*   of the go-github Git service (GetRef, GetCommit, CreateTree,          *)
(*   CreateCommit, UpdateRef) against one remote repository.               *)
(* The remote repository is an object store (commits and trees under one   *)
(* id space, ids handed out in creation order) and a table of branch refs. *)
(* Several invocations run concurrently; each is at one position (pc)      *)
(* between two remote calls. Another actor may push to the branch.         *)
(***************************************************************************)
EXTENDS Integers, Sequences, FiniteSets, TLC

\* ------------------------------------------------------------------ bounds
MaxOther  == 1      \* pushes by another actor
MaxFaults == 1      \* remote calls that fail for a reason outside the repository
MaxFiles  == 2      \* length of a request's files array

Inv == {1, 2}       \* concurrent invocations of the tool

\* ------------------------------------------------------- remote repository
\* The one repository the remote service hosts, its branch and the contents
\* of the branch before any invocation (spec section 8, scenarios A and B,
\* with a second entry so that positions among siblings can be observed).
RepoOwner == "o"
RepoName  == "r"
Branches  == {"main", "ghost", ""}
PathOrder == <<"a.txt", "b.txt", "c.txt">>   \* git orders tree entries by name
Paths     == {PathOrder[k] : k \in 1..Len(PathOrder)}
GoodToken == "tok"

NoSha == 0
TreeObj(ents) ==
    [type |-> "tree", entries |-> ents, tree |-> NoSha, parents |-> <<>>, message |-> ""]
CommitObj(t, ps, m) ==
    [type |-> "commit", entries |-> <<>>, tree |-> t, parents |-> ps, message |-> m]

T0Entries == <<[path |-> "a.txt", content |-> "x"], [path |-> "c.txt", content |-> "x"]>>
InitObjects == <<TreeObj(T0Entries), CommitObj(1, <<>>, "init")>>
InitRefs == [b \in Branches |-> IF b = "main" THEN 2 ELSE NoSha]

\* ------------------------------------------------------------------ state
VARIABLES
    objects,      \* remote object store: objects[sha] is a tree or a commit
    refs,         \* remote refs: refs[branch] is the commit id, NoSha if absent
    req,          \* req[i]: the tool request (context token and Arguments)
    pc,           \* pc[i]: position of invocation i
    options,      \* options[i]: PushFilesOptions built by handlePushFiles
    ref,          \* ref[i]: local ref of PushFiles (ref.Object.GetSHA())
    baseTreeSHA,  \* baseTreeSHA[i]: local baseTreeSHA of PushFiles
    newTree,      \* newTree[i]: local newTree (its SHA)
    newCommit,    \* newCommit[i]: local newCommit (its SHA)
    ret,          \* ret[i]: what handlePushFiles returned (result, err)
    calls,        \* calls[i]: the remote calls invocation i issued, in order
    tip0,         \* tip0[i]: refs[branch] when invocation i was entered
    raced,        \* raced[i]: the ref moved between i's GetRef and UpdateRef
    otherTip,     \* last commit pushed by the other actor, NoSha if none
    others,       \* pushes by the other actor so far
    faults,       \* injected remote failures so far
    cancelled,    \* cancelled[i]: the caller cancelled request i's context
    after         \* after[i]: every other invocation had returned when i began

vars == <<objects, refs, req, pc, options, ref, baseTreeSHA, newTree, newCommit,
          ret, calls, tip0, raced, otherTip, others, faults, cancelled, after>>

\* ---------------------------------------------------------- remote service
\* Outcome of one remote call: err is "none" or the cause of the failure.
Resp(e, s, objs, rs) == [err |-> e, sha |-> s, objects |-> objs, refs |-> rs]

IsCommit(objs, s) == s \in 1..Len(objs) /\ objs[s].type = "commit"
IsTree(objs, s)   == s \in 1..Len(objs) /\ objs[s].type = "tree"

\* The service accepts a call whose Authorization header is "Bearer " and a
\* valid token.
Authenticated(auth) == auth = "Bearer " \o GoodToken
HostsRepo(owner, repo) == owner = RepoOwner /\ repo = RepoName

\* GET /repos/{owner}/{repo}/git/ref/{ref}
RemoteGetRef(auth, owner, repo, branch) ==
    IF ~Authenticated(auth) THEN Resp("401", NoSha, objects, refs)
    ELSE IF ~HostsRepo(owner, repo) \/ branch \notin DOMAIN refs \/ refs[branch] = NoSha
         THEN Resp("404", NoSha, objects, refs)
         ELSE Resp("none", refs[branch], objects, refs)

\* GET /repos/{owner}/{repo}/git/commits/{sha}: sha is the commit's tree here
RemoteGetCommit(auth, owner, repo, sha) ==
    IF ~Authenticated(auth) THEN Resp("401", NoSha, objects, refs)
    ELSE IF ~HostsRepo(owner, repo) \/ ~IsCommit(objects, sha)
         THEN Resp("404", NoSha, objects, refs)
         ELSE Resp("none", objects[sha].tree, objects, refs)

EntryPaths(ents) == {ents[k].path : k \in 1..Len(ents)}
HasDuplicatePaths(ents) ==
    \E j, k \in 1..Len(ents) : j < k /\ ents[j].path = ents[k].path
FirstIndex(ents, p) == CHOOSE k \in 1..Len(ents) :
    ents[k].path = p /\ \A j \in 1..(k - 1) : ents[j].path /= p
LastIndex(ents, p) == CHOOSE k \in 1..Len(ents) :
    ents[k].path = p /\ \A j \in (k + 1)..Len(ents) : ents[j].path /= p
ContentOf(ents, p) == ents[LastIndex(ents, p)].content

\* The tree that base_tree overlaid with entries denotes: the base entries not
\* named by entries, plus one entry per path of entries, in git's name order.
\* policy settles which of several entries of one path the service keeps.
Overlay(base, ents, policy) ==
    LET ps == EntryPaths(base) \cup EntryPaths(ents)
        sorted == SelectSeq(PathOrder, LAMBDA p : p \in ps)
        pick(p) == IF p \in EntryPaths(ents)
                   THEN ents[IF policy = "first" THEN FirstIndex(ents, p)
                                                 ELSE LastIndex(ents, p)].content
                   ELSE ContentOf(base, p)
    IN  [k \in 1..Len(sorted) |-> [path |-> sorted[k], content |-> pick(sorted[k])]]

\* What the service may do with a tree request: the API does not say how several
\* entries of one path or an empty entry list are treated.
TreePolicies(ents) ==
    IF ents = <<>> THEN {"reject", "last"}
    ELSE IF HasDuplicatePaths(ents) THEN {"reject", "first", "last"}
    ELSE {"last"}

\* Trees are content-addressed: an equal tree has the same id.
Store(objs, o) ==
    IF o.type = "tree" /\ \E s \in 1..Len(objs) : objs[s] = o
    THEN [sha |-> CHOOSE s \in 1..Len(objs) : objs[s] = o, objects |-> objs]
    ELSE [sha |-> Len(objs) + 1, objects |-> Append(objs, o)]

\* POST /repos/{owner}/{repo}/git/trees
RemoteCreateTree(auth, owner, repo, baseTree, ents, policy) ==
    IF ~Authenticated(auth) THEN Resp("401", NoSha, objects, refs)
    ELSE IF ~HostsRepo(owner, repo) THEN Resp("404", NoSha, objects, refs)
    ELSE IF ~IsTree(objects, baseTree) \/ policy = "reject"
         THEN Resp("422", NoSha, objects, refs)
         ELSE LET st == Store(objects, TreeObj(Overlay(objects[baseTree].entries, ents, policy)))
              IN  Resp("none", st.sha, st.objects, refs)

\* What the service may do with a commit request whose parent is no commit
\* object, or whose message is empty: refuse it (422) or store it as given.
CommitPolicies(parents, message) ==
    IF (\A k \in 1..Len(parents) : IsCommit(objects, parents[k])) /\ message /= ""
    THEN {"accept"} ELSE {"reject", "accept"}

\* POST /repos/{owner}/{repo}/git/commits
RemoteCreateCommit(auth, owner, repo, commit, policy) ==
    IF ~Authenticated(auth) THEN Resp("401", NoSha, objects, refs)
    ELSE IF ~HostsRepo(owner, repo) THEN Resp("404", NoSha, objects, refs)
    ELSE IF ~IsTree(objects, commit.tree) \/ policy = "reject"
         THEN Resp("422", NoSha, objects, refs)
         ELSE LET st == Store(objects, CommitObj(commit.tree, commit.parents, commit.message))
              IN  Resp("none", st.sha, st.objects, refs)

\* a is b or an ancestor of b. A parent is older than its child, so its id is
\* smaller: the recursion ends.
RECURSIVE IsAncestor(_, _, _)
IsAncestor(objs, a, b) ==
    \/ a = b
    \/ /\ IsCommit(objs, b)
       /\ \E k \in 1..Len(objs[b].parents) :
            /\ objs[b].parents[k] < b
            /\ IsAncestor(objs, a, objs[b].parents[k])

\* PATCH /repos/{owner}/{repo}/git/refs/{ref}: without force the update must be a
\* fast-forward, i.e. the ref's commit is an ancestor of the new one.
RemoteUpdateRef(auth, owner, repo, branch, sha, force) ==
    IF ~Authenticated(auth) THEN Resp("401", NoSha, objects, refs)
    ELSE IF ~HostsRepo(owner, repo) THEN Resp("404", NoSha, objects, refs)
    ELSE IF branch \notin DOMAIN refs \/ refs[branch] = NoSha \/ ~IsCommit(objects, sha)
         THEN Resp("422", NoSha, objects, refs)
    ELSE IF ~force /\ ~IsAncestor(objects, refs[branch], sha)
         THEN Resp("422", NoSha, objects, refs)
         ELSE Resp("none", sha, objects, [refs EXCEPT ![branch] = sha])

\* --------------------------------------------------------------- requests
\* A value of the request's Arguments map (map[string]interface{}): t is its
\* dynamic type. Str is a string; Absent a missing key.
Str(x)  == [t |-> "string", s |-> x]
Absent  == [t |-> "absent", s |-> ""]
FileObj(p, c) == [t |-> "object", path |-> p, content |-> c, sha |-> Absent]
Array(es) == [t |-> "array", elems |-> es]
\* Elements of a files array that the conversion loop refuses: a value that is
\* not an object, an object whose path is not a string, an object whose content
\* is not a string.
Number == [t |-> "number", s |-> ""]
NotObject == [t |-> "string", path |-> Absent, content |-> Absent, sha |-> Absent]
BadFiles == {NotObject, FileObj(Number, Str("y")), FileObj(Str("a.txt"), Number),
             FileObj(Absent, Str("y")), FileObj(Str("a.txt"), Absent)}

Contents == <<"y", "z", "w", "v">>      \* the k-th file of a request carries Contents[k]
RECURSIVE PathSeqs(_)
PathSeqs(n) ==
    IF n = 0 THEN {<<>>}
    ELSE PathSeqs(n - 1) \cup
         {Append(q, p) : q \in {x \in PathSeqs(n - 1) : Len(x) = n - 1}, p \in Paths}
FilesOf(ps) == Array([k \in 1..Len(ps) |-> FileObj(Str(ps[k]), Str(Contents[k]))])

\* How a request reaches the server: the transport, the Authorization header of
\* the HTTP request ("" when there is none) and the GITHUB_TOKEN environment
\* variable ("" when unset).
Conn(tr, h, e) == [transport |-> tr, header |-> h, env |-> e]
Stdio(e) == Conn("stdio", "", e)
Sse(h, e) == Conn("sse", h, e)

Request(c, o, r, b, fs, m) ==
    [conn |-> c,
     args |-> [owner |-> o, repo |-> r, branch |-> b, files |-> fs, message |-> m]]

\* Well-typed requests for the hosted repository and its branch, with every
\* files array up to MaxFiles; and requests that differ from a well-formed one
\* in one parameter (an empty string, an absent branch, no token), or that
\* arrive over SSE with the token in the Authorization header or in the
\* environment.
FullRequests ==
    {Request(Stdio(GoodToken), Str(RepoOwner), Str(RepoName), Str("main"), FilesOf(ps), Str("m")) :
        ps \in PathSeqs(MaxFiles)}
OddRequests ==
    LET fs == FilesOf(<<"b.txt">>)
        ok == Stdio(GoodToken)
        rq(c) == Request(c, Str(RepoOwner), Str(RepoName), Str("main"), fs, Str("m"))
    IN {Request(ok, Str(""), Str(RepoName), Str("main"), fs, Str("m")),
        Request(ok, Str(RepoOwner), Str(""), Str("main"), fs, Str("m")),
        Request(ok, Str(RepoOwner), Str(RepoName), Str(""), fs, Str("m")),
        Request(ok, Str(RepoOwner), Str(RepoName), Str("ghost"), fs, Str("m")),
        Request(ok, Str(RepoOwner), Str(RepoName), Str("main"), fs, Str("")),
        rq(Stdio("")),
        rq(Sse("Bearer " \o GoodToken, "")),
        rq(Sse(GoodToken, "")),
        rq(Sse("", GoodToken))}
\* Requests whose files array has one refused element, after up to MaxFiles - 1
\* well-formed elements and before none or one.
MalformedRequests ==
    LET good == FilesOf(PathOrder).elems
    IN {Request(Stdio(GoodToken), Str(RepoOwner), Str(RepoName), Str("main"),
                Array(SubSeq(good, 1, n) \o <<bad>> \o post), Str("m")) :
            n \in 0..(MaxFiles - 1), bad \in BadFiles, post \in {<<>>, <<good[3]>>}}
Requests == FullRequests \cup OddRequests \cup MalformedRequests
\* The requests of the second, concurrent invocation.
ConcurrentRequests ==
    {Request(Stdio(GoodToken), Str(RepoOwner), Str(RepoName), Str("main"), FilesOf(<<p>>), Str("m")) :
        p \in {"a.txt", "b.txt"}}

\* ----------------------------------------------------------------- errors
\* Every error of handlePushFiles and PushFiles is made by fmt.Errorf without
\* %w: one dynamic type, a message, and the text of the error it was made from.
NoErr == [type |-> "nil", msg |-> "", cause |-> ""]
Errorf(m, c) == [type |-> "*errors.errorString", msg |-> m, cause |-> c]

NilResult == [nil |-> TRUE, SHA |-> NoSha, Message |-> ""]
CommitResult(sha, m) == [nil |-> FALSE, SHA |-> sha, Message |-> m]
NoOptions == [Owner |-> "", Repo |-> "", Branch |-> "", Files |-> <<>>, Message |-> ""]
Return(res, e) == [result |-> res, err |-> e]
NotReturned == [result |-> NilResult, err |-> NoErr]

\* ------------------------------------------------------- handlePushFiles
\* The context functions of the two transports: the token put into the
\* request context.
WithAuthToken(token) == Str(token)
AuthTokenFromRequest(header) == WithAuthToken(header)
AuthTokenFromEnv(env) == WithAuthToken(env)
ContextToken(c) ==
    IF c.transport = "sse" THEN AuthTokenFromRequest(c.header) ELSE AuthTokenFromEnv(c.env)

GetAuthTokenFromContextLax(tok) == [token |-> tok.s, err |-> NoErr]
GetAuthTokenFromContext(tok) ==
    IF tok.t /= "string" \/ tok.s = ""
    THEN [token |-> "", err |-> Errorf("no auth token", "")]
    ELSE [token |-> tok.s, err |-> NoErr]

\* The three type assertions on one element of filesRaw: the error the handler
\* returns for it, or nil.
FileErrorNone(f) == NoErr
FileError(f) ==
    IF f.t /= "object" THEN Errorf("each file must be an object", "")
    ELSE IF f.path.t /= "string" THEN Errorf("file path must be a string", "")
    ELSE IF f.content.t /= "string" THEN Errorf("file content must be a string", "")
    ELSE NoErr

\* The conversion loop over filesRaw: the files decoded so far, or the error
\* of the first element that is not an object with string path and content.
RECURSIVE DecodeFiles(_, _, _)
DecodeFiles(elems, k, acc) ==
    IF k > Len(elems) THEN [files |-> acc, err |-> NoErr]
    ELSE LET f == elems[k] IN
         IF FileError(f) /= NoErr THEN [files |-> <<>>, err |-> FileError(f)]
         ELSE DecodeFiles(elems, k + 1,
                 Append(acc, [Path |-> f.path.s, Content |-> f.content.s,
                              SHA |-> IF f.sha.t = "string" THEN f.sha.s ELSE ""]))

\* The parameter analysis of handlePushFiles: the options it hands to
\* PushFiles, or the error it returns.
DecodeArguments(args) ==
    IF args.owner.t /= "string" THEN [options |-> NoOptions, err |-> Errorf("owner must be a string", "")]
    ELSE IF args.repo.t /= "string" THEN [options |-> NoOptions, err |-> Errorf("repo must be a string", "")]
    ELSE IF args.branch.t /= "string" THEN [options |-> NoOptions, err |-> Errorf("branch must be a string", "")]
    ELSE IF args.files.t /= "array" THEN [options |-> NoOptions, err |-> Errorf("files must be an array", "")]
    ELSE IF args.message.t /= "string" THEN [options |-> NoOptions, err |-> Errorf("message must be a string", "")]
    ELSE LET d == DecodeFiles(args.files.elems, 1, <<>>) IN
         IF d.err /= NoErr THEN [options |-> NoOptions, err |-> d.err]
         ELSE [options |-> [Owner |-> args.owner.s, Repo |-> args.repo.s, Branch |-> args.branch.s,
                            Files |-> d.files, Message |-> args.message.s],
               err |-> NoErr]

\* ------------------------------------------------------------- PushFiles
\* The token handlePushFiles hands to PushFiles.
Token(i) == GetAuthTokenFromContext(ContextToken(req[i].conn)).token
\* getGitHubClient: every call of the client carries the token as an OAuth2
\* bearer credential.
Authorization(i) == "Bearer " \o Token(i)

\* One issued remote call, as logged in calls[i].
NoCall == [op |-> "", ref |-> "", sha |-> NoSha, baseTree |-> NoSha, entries |-> <<>>,
           tree |-> NoSha, parents |-> <<>>, message |-> "", force |-> FALSE,
           auth |-> "", err |-> "none"]
Call(i, c, resp) == [c EXCEPT !.auth = Authorization(i), !.err = resp.err]

\* A remote call may fail for a reason outside the repository: a timeout before
\* the service acted, a timeout after it acted ("late": the answer is lost), a
\* permission or rate-limit refusal.
FaultChoices == IF faults < MaxFaults THEN {"none", "timeout", "late", "403", "429"} ELSE {"none"}
Outcome(f, resp) ==
    IF f = "none" THEN resp
    ELSE IF f = "late" THEN [resp EXCEPT !.err = "timeout", !.sha = NoSha]
    ELSE Resp(f, NoSha, objects, refs)
Injected(f) == IF f = "none" THEN 0 ELSE 1

\* if err != nil after each of the five calls
GetRefIgnored(resp)      == FALSE
GetRefFailed(resp)       == resp.err /= "none"
GetCommitIgnored(resp)   == FALSE
GetCommitFailed(resp)    == resp.err /= "none"
CreateTreeIgnored(resp)  == FALSE
CreateTreeFailed(resp)   == resp.err /= "none"
CreateCommitIgnored(resp) == FALSE
CreateCommitFailed(resp) == resp.err /= "none"
UpdateRefIgnored(resp)   == FALSE
UpdateRefFailed(resp)    == resp.err /= "none"

\* The tree entries built from options.Files, in input order.
TreeEntriesReversed(files) ==
    [k \in 1..Len(files) |->
        [path |-> files[Len(files) + 1 - k].Path, mode |-> "100644", type |-> "blob",
         content |-> files[Len(files) + 1 - k].Content]]
TreeEntries(files) ==
    [k \in 1..Len(files) |->
        [path |-> files[k].Path, mode |-> "100644", type |-> "blob", content |-> files[k].Content]]

\* The commit handed to CreateCommit: Parents is made from baseTreeSHA, which
\* holds the base commit's tree id by then.
NewCommitRequest(i) ==
    [message |-> options[i].Message, tree |-> newTree[i], parents |-> <<baseTreeSHA[i]>>]

ForceMutant == TRUE
\* The force argument of UpdateRef.
Force == FALSE

\* ctx of PushFiles is context.Background(), which is never done: the context
\* of the request is not handed to PushFiles.
CtxDone(i) == FALSE

FailRetry(i, e) ==
    /\ pc' = [pc EXCEPT ![i] = "GetRef"]
    /\ UNCHANGED ret
\* return nil, err: of PushFiles and then of handlePushFiles.
Fail(i, e) ==
    /\ pc' = [pc EXCEPT ![i] = "done"]
    /\ ret' = [ret EXCEPT ![i] = Return(NilResult, e)]

\* A call made with a context that is done returns the context's error and
\* sends nothing.
Abort(i, m) ==
    /\ Fail(i, Errorf(m, "context canceled"))
    /\ UNCHANGED <<objects, refs, req, options, ref, baseTreeSHA, newTree, newCommit, calls,
                   tip0, raced, otherTip, others, faults, cancelled, after>>

\* handlePushFiles up to its call of PushFiles, and PushFiles up to its first
\* remote call.
Enter(i) ==
    /\ pc[i] = "idle"
    /\ LET a == GetAuthTokenFromContext(ContextToken(req[i].conn))
           d == DecodeArguments(req[i].args)
       IN  IF a.err /= NoErr THEN Fail(i, a.err) /\ UNCHANGED <<options, tip0>>
           ELSE IF d.err /= NoErr THEN Fail(i, d.err) /\ UNCHANGED <<options, tip0>>
           ELSE /\ options' = [options EXCEPT ![i] = d.options]
                /\ pc' = [pc EXCEPT ![i] = "GetRef"]
                /\ tip0' = [tip0 EXCEPT ![i] =
                              IF d.options.Branch \in DOMAIN refs THEN refs[d.options.Branch] ELSE NoSha]
                /\ UNCHANGED ret
    /\ after' = [after EXCEPT ![i] = \A j \in Inv \ {i} : pc[j] = "done"]
    /\ UNCHANGED <<objects, refs, req, ref, baseTreeSHA, newTree, newCommit, calls,
                   raced, otherTip, others, faults, cancelled>>


GetRefCall(i) ==
    /\ \E f \in FaultChoices :
        LET o == options[i]
            resp == Outcome(f, RemoteGetRef(Authorization(i), o.Owner, o.Repo, o.Branch))
        IN  /\ calls' = [calls EXCEPT ![i] =
                    Append(@, Call(i, [NoCall EXCEPT !.op = "GetRef", !.ref = o.Branch], resp))]
            /\ faults' = faults + Injected(f)
            /\ IF GetRefFailed(resp)
               THEN Fail(i, Errorf("branch lookup failed", resp.err))
                    /\ UNCHANGED <<ref, baseTreeSHA>>
               ELSE /\ ref' = [ref EXCEPT ![i] = resp.sha]
                    /\ baseTreeSHA' = [baseTreeSHA EXCEPT ![i] = resp.sha]
                    /\ pc' = [pc EXCEPT ![i] = "GetCommit"]
                    /\ UNCHANGED ret
    /\ UNCHANGED <<objects, refs, req, options, newTree, newCommit, tip0, raced, otherTip, others, cancelled, after>>

GetRef(i) ==
    /\ pc[i] = "GetRef"
    /\ IF CtxDone(i) THEN Abort(i, "branch lookup failed") ELSE GetRefCall(i)

GetCommitCall(i) ==
    /\ \E f \in FaultChoices :
        LET o == options[i]
            resp == Outcome(f, RemoteGetCommit(Authorization(i), o.Owner, o.Repo, baseTreeSHA[i]))
        IN  /\ calls' = [calls EXCEPT ![i] =
                    Append(@, Call(i, [NoCall EXCEPT !.op = "GetCommit", !.sha = baseTreeSHA[i]], resp))]
            /\ faults' = faults + Injected(f)
            /\ IF GetCommitFailed(resp)
               THEN Fail(i, Errorf("commit lookup failed", resp.err))
                    /\ UNCHANGED baseTreeSHA
               ELSE /\ baseTreeSHA' = [baseTreeSHA EXCEPT ![i] = resp.sha]
                    /\ pc' = [pc EXCEPT ![i] = "CreateTree"]
                    /\ UNCHANGED ret
    /\ UNCHANGED <<objects, refs, req, options, ref, newTree, newCommit, tip0, raced, otherTip, others, cancelled, after>>

GetCommit(i) ==
    /\ pc[i] = "GetCommit"
    /\ IF CtxDone(i) THEN Abort(i, "commit lookup failed") ELSE GetCommitCall(i)

CreateTreeCall(i) ==
    /\ LET o == options[i]
           entries == TreeEntries(o.Files)
       IN \E f \in FaultChoices, policy \in TreePolicies(entries) :
           LET resp == Outcome(f, RemoteCreateTree(Authorization(i), o.Owner, o.Repo, baseTreeSHA[i],
                                                   entries, policy))
           IN  /\ calls' = [calls EXCEPT ![i] =
                       Append(@, Call(i, [NoCall EXCEPT !.op = "CreateTree",
                                                !.baseTree = baseTreeSHA[i], !.entries = entries], resp))]
               /\ faults' = faults + Injected(f)
               /\ objects' = resp.objects
               /\ IF CreateTreeFailed(resp)
                  THEN Fail(i, Errorf("tree creation failed", resp.err))
                       /\ UNCHANGED newTree
                  ELSE /\ newTree' = [newTree EXCEPT ![i] = resp.sha]
                       /\ pc' = [pc EXCEPT ![i] = "CreateCommit"]
                       /\ UNCHANGED ret
    /\ UNCHANGED <<refs, req, options, ref, baseTreeSHA, newCommit, tip0, raced, otherTip, others, cancelled, after>>

CreateTree(i) ==
    /\ pc[i] = "CreateTree"
    /\ IF CtxDone(i) THEN Abort(i, "tree creation failed") ELSE CreateTreeCall(i)

CreateCommitCall(i) ==
    /\ LET o == options[i]
           c == NewCommitRequest(i)
       IN \E f \in FaultChoices, policy \in CommitPolicies(c.parents, c.message) :
           LET resp == Outcome(f, RemoteCreateCommit(Authorization(i), o.Owner, o.Repo, c, policy))
           IN  /\ calls' = [calls EXCEPT ![i] =
                       Append(@, Call(i, [NoCall EXCEPT !.op = "CreateCommit", !.tree = c.tree,
                                                !.parents = c.parents, !.message = c.message], resp))]
               /\ faults' = faults + Injected(f)
               /\ objects' = resp.objects
               /\ IF CreateCommitFailed(resp)
                  THEN Fail(i, Errorf("commit creation failed", resp.err))
                       /\ UNCHANGED newCommit
                  ELSE /\ newCommit' = [newCommit EXCEPT ![i] = resp.sha]
                       /\ pc' = [pc EXCEPT ![i] = "UpdateRef"]
                       /\ UNCHANGED ret
    /\ UNCHANGED <<refs, req, options, ref, baseTreeSHA, newTree, tip0, raced, otherTip, others, cancelled, after>>

CreateCommit(i) ==
    /\ pc[i] = "CreateCommit"
    /\ IF CtxDone(i) THEN Abort(i, "commit creation failed") ELSE CreateCommitCall(i)

\* An invocation that has read the branch and not yet finished its ref update.
Between(j, branch) ==
    /\ pc[j] \in {"GetCommit", "CreateTree", "CreateCommit", "UpdateRef"}
    /\ options[j].Branch = branch

\* The last remote call, and the mapping of the result that follows it.
UpdateRefCall(i) ==
    /\ \E f \in FaultChoices :
        LET o == options[i]
            resp == Outcome(f, RemoteUpdateRef(Authorization(i), o.Owner, o.Repo, o.Branch,
                                               newCommit[i], Force))
        IN  /\ calls' = [calls EXCEPT ![i] =
                    Append(@, Call(i, [NoCall EXCEPT !.op = "UpdateRef", !.ref = o.Branch,
                                             !.sha = newCommit[i], !.force = Force], resp))]
            /\ faults' = faults + Injected(f)
            /\ refs' = resp.refs
            /\ raced' = [j \in Inv |-> raced[j] \/ (j /= i /\ resp.refs /= refs /\ Between(j, o.Branch))]
            /\ pc' = [pc EXCEPT ![i] = "done"]
            /\ ret' = [ret EXCEPT ![i] =
                    IF UpdateRefFailed(resp)
                    THEN Return(NilResult, Errorf("ref update failed", resp.err))
                    ELSE Return(CommitResult(newCommit[i], o.Message), NoErr)]
    /\ UNCHANGED <<objects, req, options, ref, baseTreeSHA, newTree, newCommit, tip0, otherTip, others, cancelled, after>>

UpdateRef(i) ==
    /\ pc[i] = "UpdateRef"
    /\ IF CtxDone(i) THEN Abort(i, "ref update failed") ELSE UpdateRefCall(i)

\* --------------------------------------------------------- the other actor
\* Another writer pushes a commit to main: a tree with its own file content, a
\* commit on top of the current tip, a fast-forward of the ref.
OtherPush ==
    /\ others < MaxOther
    /\ LET tip == refs["main"]
           t == Store(objects, TreeObj(Overlay(objects[objects[tip].tree].entries,
                        <<[path |-> "c.txt", content |-> "other"]>>, "last")))
           c == Store(t.objects, CommitObj(t.sha, <<tip>>, "other"))
       IN  /\ objects' = c.objects
           /\ refs' = [refs EXCEPT !["main"] = c.sha]
           /\ otherTip' = c.sha
    /\ others' = others + 1
    /\ raced' = [j \in Inv |-> raced[j] \/ Between(j, "main")]
    /\ UNCHANGED <<req, pc, options, ref, baseTreeSHA, newTree, newCommit, ret, calls, tip0, faults, cancelled, after>>

\* The caller cancels the request (a client disconnect) while the invocation
\* is between two remote calls.
Cancel(i) ==
    /\ Between(i, options[i].Branch)
    /\ ~cancelled[i]
    /\ cancelled' = [cancelled EXCEPT ![i] = TRUE]
    /\ UNCHANGED <<objects, refs, req, pc, options, ref, baseTreeSHA, newTree, newCommit,
                   ret, calls, tip0, raced, otherTip, others, faults, after>>

\* ---------------------------------------------------------- specification
InitState(rs, pcs) ==
    /\ objects = InitObjects
    /\ refs = InitRefs
    /\ req \in rs
    /\ pc = pcs
    /\ options = [i \in Inv |-> NoOptions]
    /\ ref = [i \in Inv |-> NoSha]
    /\ baseTreeSHA = [i \in Inv |-> NoSha]
    /\ newTree = [i \in Inv |-> NoSha]
    /\ newCommit = [i \in Inv |-> NoSha]
    /\ ret = [i \in Inv |-> NotReturned]
    /\ calls = [i \in Inv |-> <<>>]
    /\ tip0 = [i \in Inv |-> NoSha]
    /\ raced = [i \in Inv |-> FALSE]
    /\ otherTip = NoSha
    /\ others = 0
    /\ faults = 0
    /\ cancelled = [i \in Inv |-> FALSE]
    /\ after = [i \in Inv |-> FALSE]

\* One invocation (the second is never made), any request.
Init ==
    InitState({r \in [Inv -> Requests] : r[2] \in ConcurrentRequests /\ r[2].args.files = FilesOf(<<"b.txt">>)},
              [i \in Inv |-> IF i = 1 THEN "idle" ELSE "off"])

\* Two invocations on the same repository and branch, concurrent or one after
\* the other, with the same request or with different files.
InitConcurrent ==
    InitState({r \in [Inv -> ConcurrentRequests] : r[1].args.files = FilesOf(<<"b.txt">>)},
              [i \in Inv |-> "idle"])

Next ==
    \/ \E i \in Inv : Enter(i)
    \/ \E i \in Inv : GetRef(i)
    \/ \E i \in Inv : GetCommit(i)
    \/ \E i \in Inv : CreateTree(i)
    \/ \E i \in Inv : CreateCommit(i)
    \/ \E i \in Inv : UpdateRef(i)
    \/ \E i \in Inv : Cancel(i)
    \/ OtherPush

Spec == Init /\ [][Next]_vars
SpecConcurrent == InitConcurrent /\ [][Next]_vars

\* ------------------------------------------------------------ properties
Done(i)      == pc[i] = "done"
Entered(i)   == pc[i] \notin {"idle", "off"}
Succeeded(i) == Done(i) /\ ~ret[i].result.nil
Errored(i)   == Done(i) /\ ret[i].err /= NoErr
Issued(i, op) == \E k \in 1..Len(calls[i]) : calls[i][k].op = op
CallsOf(i, op) == {calls[i][k] : k \in {n \in 1..Len(calls[i]) : calls[i][n].op = op}}
BranchTip(i) == IF options[i].Branch \in DOMAIN refs THEN refs[options[i].Branch] ELSE NoSha

\* C1: with no other writer, the branch ref is at every moment of an invocation
\* either the commit it pointed to when the invocation began or the commit the
\* invocation created; once the invocation has returned an error the ref is the
\* former, once it has returned a result the ref is the latter.
C1_AtomicOutcome ==
    \A i \in Inv :
        (Entered(i) /\ others = 0 /\ \A j \in Inv \ {i} : ~Entered(j)) =>
            /\ BranchTip(i) \in {tip0[i], newCommit[i]}
            /\ Errored(i) => BranchTip(i) = tip0[i] /\ ret[i].result.nil
            /\ Succeeded(i) =>
                 /\ ret[i].err = NoErr
                 /\ ret[i].result.SHA = newCommit[i]
                 /\ IsCommit(objects, newCommit[i])
                 /\ BranchTip(i) = newCommit[i]
            /\ Done(i) => Errored(i) \/ Succeeded(i)

\* An invocation that ran through all five calls with no other writer and has
\* returned, the branch being where it was.
C1_Witness ==
    /\ Done(1) /\ others = 0 /\ Len(calls[1]) = 5 /\ Errored(1)
    /\ IsCommit(objects, newCommit[1])
    /\ refs["main"] = tip0[1]

\* C2: when another actor moved the branch between an invocation's ref lookup
\* and its ref update, the invocation ends with an error and no result, every
\* ref update it requested was a non-force one, and the branch points to the
\* other actor's commit, not to the invocation's.
C2_RaceRefused ==
    \A i \in Inv :
        (raced[i] /\ Done(i)) =>
            /\ Errored(i) /\ ret[i].result.nil
            /\ \A c \in CallsOf(i, "UpdateRef") : ~c.force
            /\ BranchTip(i) = otherTip
            /\ BranchTip(i) /= newCommit[i]

\* The branch moved while invocation 1 was between its lookup and its update,
\* and the invocation went on to request the update, which was answered.
C2_Witness ==
    /\ raced[1] /\ Done(1) /\ faults = 0
    /\ Issued(1, "UpdateRef")
    /\ ret[1].err = Errorf("ref update failed", "422")
    /\ refs["main"] = otherTip

\* C3: of two concurrent invocations that read the same branch tip at most one
\* returns a result, and the commit of every returned result is reachable from
\* the branch from then on.
C3_NoLostUpdate ==
    /\ \A i, j \in Inv :
         (i /= j /\ ref[i] /= NoSha /\ ref[i] = ref[j]) => ~(Succeeded(i) /\ Succeeded(j))
    /\ \A i \in Inv :
         Succeeded(i) => IsAncestor(objects, ret[i].result.SHA, BranchTip(i))

\* Both invocations read the same tip, both requested the ref update, both
\* have returned.
C3_Witness ==
    /\ ref[1] /= NoSha /\ ref[1] = ref[2]
    /\ Done(1) /\ Done(2)
    /\ Issued(1, "UpdateRef") /\ Issued(2, "UpdateRef")
    /\ faults = 0

EntrySet(ents) == {[path |-> ents[k].path, content |-> ents[k].content] : k \in 1..Len(ents)}
PathSeq(ents) == [k \in 1..Len(ents) |-> ents[k].path]
FileSet(files) == {[path |-> files[k].Path, content |-> files[k].Content] : k \in 1..Len(files)}
FilePaths(files) == {files[k].Path : k \in 1..Len(files)}
DistinctPaths(files) == \A j, k \in 1..Len(files) : j /= k => files[j].Path /= files[k].Path
\* The tree of the commit that a returned result names.
ResultTree(i) == objects[objects[ret[i].result.SHA].tree].entries
\* A request for the hosted repository's branch with a message and files, whose
\* invocation met no remote failure and no competing writer.
ValidRun(i) ==
    /\ Done(i) /\ Issued(i, "GetRef")
    /\ options[i].Owner = RepoOwner /\ options[i].Repo = RepoName
    /\ options[i].Branch = "main" /\ options[i].Message /= ""
    /\ options[i].Files /= <<>> /\ DistinctPaths(options[i].Files)
    /\ faults = 0 /\ others = 0 /\ \A j \in Inv \ {i} : ~Entered(j)

\* C4: a valid request whose files have distinct paths absent from the base
\* tree ends in a result whose commit's tree holds exactly the base tree's
\* entries and the request's files.
C4_AddsNewEntries ==
    \A i \in Inv :
        (ValidRun(i) /\ FilePaths(options[i].Files) \cap EntryPaths(T0Entries) = {}) =>
            /\ Succeeded(i)
            /\ EntrySet(ResultTree(i)) = EntrySet(T0Entries) \cup FileSet(options[i].Files)
            /\ Len(ResultTree(i)) = Len(T0Entries) + Len(options[i].Files)

\* C5: a valid request whose paths all exist in the base tree ends in a result
\* whose commit's tree has the same paths in the same positions, with the
\* request's content at each requested path and the old content elsewhere.
C5_ReplacesInPlace ==
    \A i \in Inv :
        (ValidRun(i) /\ FilePaths(options[i].Files) \subseteq EntryPaths(T0Entries)) =>
            /\ Succeeded(i)
            /\ PathSeq(ResultTree(i)) = PathSeq(T0Entries)
            /\ \A k \in 1..Len(T0Entries) :
                 LET p == T0Entries[k].path IN
                 [path |-> p, content |-> ResultTree(i)[k].content] \in
                     (IF p \in FilePaths(options[i].Files)
                      THEN FileSet(options[i].Files) ELSE EntrySet(T0Entries))

\* C6: the commit handed to commit creation has exactly one parent, the commit
\* id that the ref lookup returned; its tree is the tree just created and its
\* message the request's.
C6_ParentIsTip ==
    \A i \in Inv : \A c \in CallsOf(i, "CreateCommit") :
        /\ c.parents = <<ref[i]>>
        /\ c.tree = newTree[i]
        /\ c.message = options[i].Message

ArgFiles(i) == req[i].args.files.elems
ArgPaths(i) == [k \in 1..Len(ArgFiles(i)) |-> ArgFiles(i)[k].path]
Asked(i) == pc[i] /= "off"

\* C8: a request with an empty files list is rejected and makes no remote call.
C8_EmptyFilesRejected ==
    \A i \in Inv :
        (Asked(i) /\ ArgFiles(i) = <<>>) =>
            /\ calls[i] = <<>>
            /\ Done(i) => Errored(i)

\* C9: a request naming one path more than once makes no remote call.
C9_DuplicatePathsRejected ==
    \A i \in Inv :
        (Asked(i) /\ \E j, k \in 1..Len(ArgFiles(i)) : j /= k /\ ArgPaths(i)[j] = ArgPaths(i)[k]) =>
            /\ calls[i] = <<>>
            /\ ~Issued(i, "CreateTree")

\* C10: a request whose owner, repo, branch or message is the empty string
\* makes no remote call.
C10_EmptyParamRejected ==
    \A i \in Inv :
        (Asked(i) /\ Str("") \in {req[i].args.owner, req[i].args.repo,
                                  req[i].args.branch, req[i].args.message}) =>
            /\ calls[i] = <<>>
            /\ Done(i) => Errored(i)

\* The five remote calls in the order of the algorithm, and the message of the
\* error PushFiles makes when a call fails.
CallOrder == <<"GetRef", "GetCommit", "CreateTree", "CreateCommit", "UpdateRef">>
StepMsg(op) ==
    CASE op = "GetRef" -> "branch lookup failed"
      [] op = "GetCommit" -> "commit lookup failed"
      [] op = "CreateTree" -> "tree creation failed"
      [] op = "CreateCommit" -> "commit creation failed"
      [] op = "UpdateRef" -> "ref update failed"
FailedCalls(i) == {k \in 1..Len(calls[i]) : calls[i][k].err /= "none"}

\* C11: the k-th remote call of an invocation is the k-th step of the algorithm
\* (ref lookup, commit lookup, tree creation, commit creation, ref update), a
\* call is issued only when every call before it returned without error, and an
\* invocation that returned a result issued all five.
C11_CallOrder ==
    \A i \in Inv :
        /\ Len(calls[i]) <= Len(CallOrder)
        /\ \A k \in 1..Len(calls[i]) :
             /\ calls[i][k].op = CallOrder[k]
             /\ k < Len(calls[i]) => calls[i][k].err = "none"
        /\ Succeeded(i) => Len(calls[i]) = Len(CallOrder) /\ FailedCalls(i) = {}

\* An invocation went through all five calls, the first four answered without
\* error, and has returned.
C11_Witness ==
    /\ Done(1) /\ Len(calls[1]) = 5
    /\ \A k \in 1..4 : calls[1][k].err = "none"
    /\ calls[1][5].op = "UpdateRef"

\* C12: no remote call is issued twice by one invocation, a failed call is the
\* last call of its invocation (nothing is re-read or re-issued after it), and
\* the invocation has then returned that failure.
C12_NoRetry ==
    \A i \in Inv :
        /\ \A j, k \in 1..Len(calls[i]) : j /= k => calls[i][j].op /= calls[i][k].op
        /\ \A k \in FailedCalls(i) :
             /\ k = Len(calls[i])
             /\ Done(i) /\ Errored(i)
             /\ ret[i].err.cause = calls[i][k].err

\* The ref update of an invocation was refused after another actor moved the
\* branch, and the invocation returned without another call.
C12_Witness ==
    /\ Done(1) /\ raced[1] /\ faults = 0
    /\ Len(calls[1]) = 5
    /\ calls[1][5].op = "UpdateRef" /\ calls[1][5].err = "422"

C14_ResultAfterUpdate ==
    \A i \in Inv :
        /\ ~ret[i].result.nil =>
             /\ Done(i) /\ Len(calls[i]) = 5
             /\ calls[i][5].op = "UpdateRef" /\ calls[i][5].err = "none"
             /\ calls[i][5].sha = ret[i].result.SHA
        /\ (Done(i) /\ FailedCalls(i) /= {}) => ret[i].result = NilResult
        /\ ~Done(i) => ret[i] = NotReturned

\* An invocation whose ref update failed has returned the nil result.
C14_Witness ==
    /\ Done(1) /\ Issued(1, "UpdateRef") /\ FailedCalls(1) = {5}
    /\ ret[1].result = NilResult /\ ret[1].err /= NoErr

\* Invocation j was entered after invocation i had returned, with the same
\* request, and neither met a remote failure, a competing writer or a
\* cancellation.
Reissued(i, j) ==
    /\ i /= j /\ after[j] /\ Done(i) /\ Done(j)
    /\ req[i] = req[j] /\ options[i] = options[j]
    /\ options[i].Owner = RepoOwner /\ options[i].Repo = RepoName
    /\ options[i].Branch = "main" /\ options[i].Message /= ""
    /\ options[i].Files /= <<>> /\ DistinctPaths(options[i].Files)
    /\ faults = 0 /\ others = 0 /\ ~cancelled[i] /\ ~cancelled[j]

\* C15: an identical request issued again after the first invocation returned
\* succeeds like the first, with a different commit id and the same tree, and
\* the branch tip the second invocation read is the first invocation's commit.
C15_ReissueNewCommit ==
    \A i, j \in Inv :
        Reissued(i, j) =>
            /\ Succeeded(i) /\ Succeeded(j)
            /\ ret[i].result.SHA /= ret[j].result.SHA
            /\ objects[ret[i].result.SHA].tree = objects[ret[j].result.SHA].tree
            /\ ref[j] = ret[i].result.SHA

\* The error types of package common that stand for the classified failures.
ConflictErrorType       == "*common.GitHubConflictError"
AuthenticationErrorType == "*common.GitHubAuthenticationError"
PermissionErrorType     == "*common.GitHubPermissionError"
RateLimitErrorType      == "*common.GitHubRateLimitError"
LastCall(i) == calls[i][Len(calls[i])]

\* C16: when the ref moved between an invocation's ref lookup and its ref update
\* and the update was refused, the returned error has the conflict type, and an
\* invocation that failed in another way returns an error of another type.
C16_ConflictTyped ==
    \A i \in Inv :
        (Done(i) /\ calls[i] /= <<>>) =>
            /\ (raced[i] /\ LastCall(i).op = "UpdateRef" /\ LastCall(i).err = "422")
                   => ret[i].err.type = ConflictErrorType
            /\ (LastCall(i).op /= "UpdateRef" /\ LastCall(i).err /= "none")
                   => ret[i].err.type /= ConflictErrorType

\* C17: whenever a remote call of an invocation failed, the invocation has
\* returned, its error is not nil and carries the failure of that call, and its
\* result is nil.
C17_NoErrorSwallowed ==
    \A i \in Inv : \A k \in FailedCalls(i) :
        /\ Done(i)
        /\ ret[i].err /= NoErr
        /\ ret[i].err.msg = StepMsg(calls[i][k].op)
        /\ ret[i].err.cause = calls[i][k].err
        /\ ret[i].result = NilResult

\* A tree creation failed on a remote permission failure and the invocation
\* returned that error.
C17_Witness ==
    /\ Done(1) /\ Len(calls[1]) = 3
    /\ calls[1][3].op = "CreateTree" /\ calls[1][3].err = "403"
    /\ ret[1] = Return(NilResult, Errorf("tree creation failed", "403"))

\* C18: once the caller has cancelled the request of an invocation, the
\* invocation issues no further remote call, and no step of it removes an
\* object from the store or moves the ref back.
C18_CancelAborts ==
    [][\A i \in Inv :
          cancelled[i] =>
              /\ calls'[i] = calls[i]
              /\ \A k \in 1..Len(objects) : k <= Len(objects') /\ objects'[k] = objects[k]]_vars

\* C19: an invocation whose last remote call failed on authentication, on
\* permission or on the rate limit returns an error of the matching type, the
\* rate-limit error with its reset time.
C19_ErrorsClassified ==
    \A i \in Inv :
        (Done(i) /\ calls[i] /= <<>>) =>
            /\ LastCall(i).err = "401" => ret[i].err.type = AuthenticationErrorType
            /\ LastCall(i).err = "403" => ret[i].err.type = PermissionErrorType
            /\ LastCall(i).err = "429" =>
                 /\ ret[i].err.type = RateLimitErrorType
                 /\ "ResetAt" \in DOMAIN ret[i].err

\* C20: every remote call of a request that came over SSE with the header
\* "Bearer " followed by the token carries the token itself as its bearer
\* credential.
C20_BearerHeaderToken ==
    \A i \in Inv :
        (req[i].conn.transport = "sse" /\ req[i].conn.header = "Bearer " \o GoodToken) =>
            \A k \in 1..Len(calls[i]) : calls[i][k].auth = "Bearer " \o GoodToken

\* C21: a request over SSE with no Authorization header, served while
\* GITHUB_TOKEN is set, makes its remote calls with the environment's token.
C21_SseEnvToken ==
    \A i \in Inv :
        (Done(i) /\ req[i].conn.transport = "sse" /\ req[i].conn.header = ""
                 /\ req[i].conn.env /= "") =>
            /\ Token(i) = req[i].conn.env
            /\ Issued(i, "GetRef")
            /\ \A k \in 1..Len(calls[i]) : calls[i][k].auth = "Bearer " \o req[i].conn.env

\* The entry tree creation is sent for one element of the request's files.
EntryOf(f) == [path |-> f.path.s, mode |-> "100644", type |-> "blob", content |-> f.content.s]

\* C22: the entries sent to tree creation are, position by position, the
\* elements of the request's files array: as many, in the same order, each with
\* the element's path and content, mode 100644 and type blob.
C22_EntriesAsGiven ==
    \A i \in Inv : \A c \in CallsOf(i, "CreateTree") :
        /\ Len(c.entries) = Len(ArgFiles(i))
        /\ \A k \in 1..Len(ArgFiles(i)) : c.entries[k] = EntryOf(ArgFiles(i)[k])

\* Tree creation was sent two entries of one path, in the order of the request.
C22_Witness ==
    /\ Issued(1, "CreateTree") /\ Len(ArgFiles(1)) = 2
    /\ ArgPaths(1)[1] = ArgPaths(1)[2]
    /\ calls[1][3].op = "CreateTree"
    /\ calls[1][3].entries[1].content = Contents[1]
    /\ calls[1][3].entries[2].content = Contents[2]

\* C23: an invocation whose request context carries the empty string or no
\* string as its token never leaves the handler's first step: it makes no
\* remote call and returns the token error and no result.
C23_NoTokenNoCall ==
    \A i \in Inv :
        (Asked(i) /\ (ContextToken(req[i].conn).t /= "string" \/ ContextToken(req[i].conn).s = "")) =>
            /\ calls[i] = <<>>
            /\ pc[i] \in {"idle", "done"}
            /\ Done(i) => ret[i] = Return(NilResult, Errorf("no auth token", ""))

\* A request over SSE without header was refused for its empty token although
\* the environment has one.
C23_Witness ==
    /\ Done(1) /\ req[1].conn = Sse("", GoodToken)
    /\ calls[1] = <<>>
    /\ ret[1].err = Errorf("no auth token", "")

\* C24: a request whose files array has an element that is not an object, or
\* whose path or content is not a string, makes no remote call and returns an
\* error and no result, wherever in the array the element stands.
C24_MalformedFileRejected ==
    \A i \in Inv :
        (Asked(i) /\ \E k \in 1..Len(ArgFiles(i)) :
                        \/ ArgFiles(i)[k].t /= "object"
                        \/ ArgFiles(i)[k].path.t /= "string"
                        \/ ArgFiles(i)[k].content.t /= "string") =>
            /\ calls[i] = <<>>
            /\ pc[i] \in {"idle", "done"}
            /\ Done(i) => (ret[i].result = NilResult /\ ret[i].err /= NoErr)

\* A request whose last of MaxFiles elements is not an object, after well-formed
\* ones, was refused.
C24_Witness ==
    /\ Done(1) /\ Len(ArgFiles(1)) = MaxFiles
    /\ \A k \in 1..(MaxFiles - 1) : FileError(ArgFiles(1)[k]) = NoErr
    /\ ArgFiles(1)[MaxFiles].t /= "object"
    /\ calls[1] = <<>>
    /\ ret[1] = Return(NilResult, Errorf("each file must be an object", ""))

====
